---- MODULE Spec2Model ----
(***************************************************************************)
(* Family display backend: the frame composition pipeline.                 *)
(*                                                                         *)
(*   Spec           one device request through backend/app.py:             *)
(*                  generate_display_image -> fetch_ai_image (fresh GCS,   *)
(*                  local fallback, stale GCS scan, placeholder, palette   *)
(*                  quantization) -> _fetch_weather / _fetch_joke ->       *)
(*                  layout drawing -> PNG response.                        *)
(*   SpecProviders  the weather and joke wrappers called on their own:     *)
(*                  get_weather / get_joke of backend/main.py, get_weather *)
(*                  of backend/services/weather.py (with its cache),       *)
(*                  _fetch_weather / _fetch_joke of backend/app.py.        *)
(*   SpecQuant      _quantize_to_eink_palette of backend/app.py applied to *)
(*                  small RGB images, once and then to its own output.     *)
(*                                                                         *)
(* Library calls (Pillow, requests, google-cloud-storage) are modelled by  *)
(* their documented behaviour at the call sites of this repository.        *)
(***************************************************************************)
EXTENDS Integers, Sequences, FiniteSets, TLC

VARIABLES
    \* ---- environment of one request (backend/app.py) ----
    bucket,          \* set of blob keys stored under weekly-art/
    gcsUp,           \* FALSE: every call to the object store raises
    localFile,       \* state of backend/fallback_art/{day}_{variation}.png
    today,           \* current_date.weekday()
    reqVariation,    \* raw ?variation= request argument
    \* ---- generate_display_image / fetch_ai_image ----
    pc,              \* position inside the request handler
    variation_index,
    attempts,        \* tiers attempted by fetch_ai_image, in order
    art,             \* image returned by fetch_ai_image (NoImage before)
    raised,          \* an exception escaped the handler
    weather,
    joke,
    drawn,           \* layout elements painted onto the canvas, in order
    steps,           \* pipeline steps performed, in order
    response,
    \* ---- provider wrappers (backend/main.py, backend/services/weather.py) ----
    ENABLE_OPENWEATHER,
    OPENWEATHER_KEY, \* TRUE: a key is configured
    ENABLE_JOKES_API,
    now,             \* time.time(), in seconds
    cache,           \* cache/weather/<hash>.json objects, by city and units
    call,            \* the last wrapper call: what it was given and what it did
    \* ---- palette quantizer (backend/app.py) ----
    qpc,
    qimg,            \* the RGB image handed to the quantizer
    qout,            \* its output
    qout2,           \* the output of quantizing qout again
    \* ---- helpers called on their own ----
    scan,            \* the last _fetch_stale_gcs_data call and what it returned
    layoutCall,      \* the last load_layout_for call and what it returned
    wxCall,          \* the last fetch_weather_data call (src/app.py) and its result
    fcCall,          \* the last get_forecast call and its result
    \* ---- pexels rotation (backend/main.py, backend/services/pexels.py) ----
    storage_enabled,
    pexCurrent,      \* pexels/current/{theme}_{idx}.jpg: photo id by idx, 0 if absent
    pexCache,        \* pexels/cache/{today}/{theme}_{idx}.jpg, likewise
    rot,             \* the /admin/prefetch requests, by request
    weekly,          \* pexels/current/{theme}/v_{i}.jpg, likewise
    roll,            \* the rollover block of /admin/prefetch, blob by blob
    \* ---- weekly art job (backend/generator.py, generator.py) ----
    job,
    \* ---- Playwright renderer (backend/main.py) ----
    ENABLE_RENDERING,
    ENABLE_RENDER_NOW,
    playwright_browser, \* "none" (None) or "browser"
    started,            \* "no", or how startup_event ended: "ready", "skipped", "failed"
    open_pages,         \* pages opened and not closed
    frames              \* the /v1/frame and /admin/render_now requests, by request

renderEnv == <<bucket, gcsUp, localFile, today, reqVariation>>
renderVars == <<renderEnv, pc, variation_index, attempts, art, raised, weather,
                joke, drawn, steps, response>>
provVars == <<ENABLE_OPENWEATHER, OPENWEATHER_KEY, ENABLE_JOKES_API, now, cache, call>>
quantVars == <<qpc, qimg, qout, qout2>>
helperVars == <<scan, layoutCall, wxCall, fcCall>>
rotVars == <<storage_enabled, pexCurrent, pexCache, rot, weekly>>
rollVars == <<roll>>
jobVars == <<job>>
rendVars == <<ENABLE_RENDERING, ENABLE_RENDER_NOW, playwright_browser, started,
              open_pages, frames>>
otherThanRender == <<provVars, quantVars, helperVars, rotVars, jobVars, rendVars, rollVars>>
otherThanProviders == <<renderVars, quantVars, helperVars, rotVars, jobVars, rendVars, rollVars>>
otherThanQuant == <<renderVars, provVars, helperVars, rotVars, jobVars, rendVars, rollVars>>
otherThanHelpers == <<renderVars, provVars, quantVars, rotVars, jobVars, rendVars, rollVars>>
otherThanRotation == <<renderVars, provVars, quantVars, helperVars, jobVars, rendVars, rollVars>>
otherThanJob == <<renderVars, provVars, quantVars, helperVars, rotVars, rendVars, rollVars>>
otherThanRenderer == <<renderVars, provVars, quantVars, helperVars, rotVars, jobVars, rollVars>>
otherThanRollover == <<renderVars, provVars, quantVars, helperVars, rotVars, jobVars, rendVars>>

vars == <<renderVars, provVars, quantVars, helperVars, rotVars, jobVars, rendVars, rollVars>>

-----------------------------------------------------------------------------
(* Bounds of the model *)

MaxDay == 1          \* weekdays 0..MaxDay are exercised (the code has 0..6)
MaxBlobs == 1        \* at most this many blobs under weekly-art/
MaxVariationArg == 4 \* ?variation= ranges over 0..MaxVariationArg and a non-number
MaxTicks == 2        \* the clock advances at most this many half-TTL ticks
MaxPixels == 4       \* images given to the quantizer have at most this many pixels
MaxObjects == 2      \* objects in the bucket when the stale scan is called on its own
MaxRequests == 2     \* /admin/prefetch requests that may overlap
MaxUrls == 2         \* photos in one answer of the stock-photo provider
MaxPhotos == 2       \* provider-assigned photo ids are 1..MaxPhotos
MaxFrames == 2       \* /v1/frame and /admin/render_now requests that may overlap
MaxItems == 3        \* 3-hour items in one forecast answer (the provider sends 40)
MaxDate == 2         \* forecast items are dated 0..MaxDate, in days

(* Program constants *)

DISPLAY_WIDTH == 800
DISPLAY_HEIGHT == 480
NumVariations == 4   \* len(self.drawing_functions)

-----------------------------------------------------------------------------
(* Values *)

NoImage == [tier |-> "none", quantized |-> FALSE, size |-> <<0, 0>>]
NoResponse == [status |-> 0, mimetype |-> "none", size |-> <<0, 0>>]
\* ?variation= is a string: one int() accepts, or one it rejects
NumArg(n) == [isNumber |-> TRUE, n |-> n]
BadArg == [isNumber |-> FALSE, n |-> 0]

\* Monday dates that blob names under weekly-art/ carry, oldest first; the
\* request is served in the week of the last one.
Mondays == <<"2025-01-06", "2025-01-13">>
start_of_week == Mondays[Len(Mondays)]

DayIndices == 0..MaxDay
VariationIndices == 0..(NumVariations - 1)

\* weekly-art/{date}_{day}_{var}.png
BlobKeys == [date : {Mondays[i] : i \in DOMAIN Mondays},
             day : DayIndices, var : VariationIndices]

Tiers == <<"fresh", "local_fallback", "stale_remote", "placeholder">>

\* Sizes of the stored art images that are exercised.
ArtSizes == {<<1024, 1024>>, <<800, 264>>}

\* States of the bundled fallback file: "present" opens; "missing" does not
\* exist; "unreadable" makes Image.open raise an OSError; "broken" makes
\* Image.open(...).convert("RGB") raise an exception that is no OSError
\* (a decoder SyntaxError/ValueError, DecompressionBombError).
LocalFileStates == {"present", "missing", "unreadable", "broken"}

-----------------------------------------------------------------------------
(* fetch_ai_image and its helpers (backend/app.py) *)

\* int(variation) % len(self.drawing_functions); ValueError -> 0
ParseVariation(arg) ==
    IF ~arg.isNumber THEN 0 ELSE arg.n % NumVariations

\* weekly-art/{start_of_week}_{day_index}_{variation_index}.png
FreshKey(day, var) == [date |-> start_of_week, day |-> day, var |-> var]

\* blob.download_as_bytes() + Image.open: "hit", or an exception
FreshLookup(store, up, day, var) ==
    IF up /\ FreshKey(day, var) \in store THEN "hit" ELSE "error"

\* _load_local_fallback: the image, IOError, or another exception
LoadLocalFallback(file) ==
    CASE file = "present" -> "hit"
      [] file = "missing" -> "ioerror"
      [] file = "unreadable" -> "ioerror"
      [] file = "broken" -> "error"

\* Blob names compare as strings: date, then day, then variation.
DateRank(d) == CHOOSE i \in DOMAIN Mondays : Mondays[i] = d
KeyBefore(a, b) ==
    \/ DateRank(a.date) < DateRank(b.date)
    \/ a.date = b.date /\ a.day < b.day
    \/ a.date = b.date /\ a.day = b.day /\ a.var < b.var

\* bucket.list_blobs(prefix="weekly-art/"): names in lexicographic order
RECURSIVE Listing(_)
Listing(store) ==
    IF store = {} THEN <<>>
    ELSE LET first == CHOOSE k \in store : \A o \in store \ {k} : KeyBefore(k, o)
         IN <<first>> \o Listing(store \ {first})

\* blob.name.endswith(f"_{day_index}_{variation_index}.png")
HasSuffix(key, day, var) == key.day = day /\ key.var = var

\* The loop without its break: the last match wins.
RECURSIVE ScanFromLast(_, _, _, _)
ScanFromLast(blobs, i, day, var) ==
    IF i > Len(blobs) THEN 0
    ELSE LET later == ScanFromLast(blobs, i + 1, day, var)
         IN IF later # 0 THEN later
            ELSE IF HasSuffix(blobs[i], day, var) THEN i ELSE 0

\* the for/break loop of _fetch_stale_gcs_data: index of the first match, 0 if none
RECURSIVE ScanFrom(_, _, _, _)
ScanFrom(blobs, i, day, var) ==
    IF i > Len(blobs) THEN 0
    ELSE IF HasSuffix(blobs[i], day, var) THEN i
    ELSE ScanFrom(blobs, i + 1, day, var)

\* _fetch_stale_gcs_data: "hit", or Exception("Stale data recovery failed.")
FetchStaleGcsData(store, up, day, var) ==
    IF ~up THEN "error"
    ELSE IF ScanFrom(Listing(store), 1, day, var) = 0 THEN "error"
    ELSE "hit"

\* Objects of the whole bucket: a prefix and the name below it.
WEEKLY_ART == "weekly-art/"
NoBlob == [prefix |-> "", key |-> [date |-> "", day |-> -1, var |-> -1]]

\* The names list_blobs(prefix=...) yields, in listing order
ListBlobs(objects, prefix) ==
    Listing({o.key : o \in {x \in objects : x.prefix = prefix}})

\* The blob _fetch_stale_gcs_data downloads (stale_blob), NoBlob if it raises
StaleBlob(objects, up, day, var) ==
    LET blobs == ListBlobs(objects, WEEKLY_ART)
        i == ScanFrom(blobs, 1, day, var)
    IN IF ~up \/ i = 0 THEN NoBlob
       ELSE [prefix |-> WEEKLY_ART, key |-> blobs[i]]

\* Escalate with the local fallback left out of the chain.
EscalateSkipLocal(tier, outcome) ==
    CASE tier = "fresh" ->
            IF outcome = "hit" THEN "quantize" ELSE "stale"
      [] tier = "local_fallback" ->
            IF outcome = "hit" THEN "quantize"
            ELSE IF outcome = "ioerror" THEN "stale"
            ELSE "raise"
      [] tier = "stale_remote" ->
            IF outcome = "hit" THEN "quantize" ELSE "placeholder"

\* Escalate with a failed fresh lookup tried again.
EscalateRetryFresh(tier, outcome) ==
    CASE tier = "fresh" ->
            IF outcome = "hit" THEN "quantize" ELSE "fresh"
      [] tier = "local_fallback" ->
            IF outcome = "hit" THEN "quantize"
            ELSE IF outcome = "ioerror" THEN "stale"
            ELSE "raise"
      [] tier = "stale_remote" ->
            IF outcome = "hit" THEN "quantize" ELSE "placeholder"

\* The nested try/except of fetch_ai_image: where control goes after a tier's
\* outcome. Attempt 1 and 3 catch Exception; attempt 2 catches IOError only.
Escalate(tier, outcome) ==
    CASE tier = "fresh" ->
            IF outcome = "hit" THEN "quantize" ELSE "local"
      [] tier = "local_fallback" ->
            IF outcome = "hit" THEN "quantize"
            ELSE IF outcome = "ioerror" THEN "stale"
            ELSE "raise"
      [] tier = "stale_remote" ->
            IF outcome = "hit" THEN "quantize" ELSE "placeholder"

-----------------------------------------------------------------------------
(* _fetch_weather / _fetch_joke (backend/app.py) *)

\* What a provider call can do: "ok" is a 200 with a well-formed body.
WeatherOutcomes == {"ok", "unreachable", "timeout", "non200", "malformed"}
JokeOutcomes == {"ok", "unreachable", "timeout", "non200", "nofield"}

WeatherUnavailable == "Weather Unavailable"
JokeUnavailable == "Joke Unavailable."
AtomsJoke == "Why don't scientists trust atoms? Because they make up everything!"
LiveWeather == "<Condition>, <temp>C"
LiveJoke == "<joke from the provider>"

\* requests.get(URL, timeout=5); raise_for_status(); data[...]; except Exception
FetchWeatherApp(outcome) ==
    IF outcome = "ok" THEN LiveWeather ELSE WeatherUnavailable

\* requests.get(..., timeout=5); raise_for_status(); joke_data.get('joke', default)
FetchJokeApp(outcome) ==
    CASE outcome = "ok" -> LiveJoke
      [] outcome = "nofield" -> AtomsJoke
      [] OTHER -> JokeUnavailable

-----------------------------------------------------------------------------
(* get_weather / get_joke (backend/main.py) *)

LOCAL_JOKES == <<
    "I told my wife she should embrace her mistakes - she gave me a hug.",
    "Why don't skeletons fight each other? They don't have the guts.",
    "I'm reading a book about anti-gravity. It's impossible to put down.",
    "Why did the scarecrow win an award? He was outstanding in his field.",
    "I used to play piano by ear, now I use my hands.",
    "I asked my dog what's two minus two. He said nothing." >>

LocalJokeSet == {LOCAL_JOKES[i] : i \in DOMAIN LOCAL_JOKES}

\* Descriptions the weather provider sends, as it sends them.
Descriptions == {"light rain", "few clouds"}

\* str.title() and str.capitalize() on those descriptions
Title(d) ==
    CASE d = "light rain" -> "Light Rain"
      [] d = "few clouds" -> "Few Clouds"
Capitalize(d) ==
    CASE d = "light rain" -> "Light rain"
      [] d = "few clouds" -> "Few clouds"

\* What a wrapper call did: a value returned or an exception raised, the
\* weather description or joke it carries, and the outbound requests it made.
Returned(desc, text, outbound) ==
    [kind |-> "returned", desc |-> desc, joke |-> text, outbound |-> outbound]
Raised(outbound) ==
    [kind |-> "raised", desc |-> "", joke |-> "", outbound |-> outbound]

\* The fixed stub of get_weather: temp 33, icon 01d, desc "Sunny"
WeatherStub == Returned("Sunny", "", 0)

\* get_weather(city) of backend/main.py
MainGetWeather(enabled, key, outcome, description) ==
    IF ~enabled \/ ~key THEN WeatherStub
    ELSE IF outcome = "ok" THEN Returned(Title(description), "", 1)
    ELSE [WeatherStub EXCEPT !.outbound = 1]

\* get_joke() of backend/main.py; pick is the index random.choice draws
MainGetJoke(enabled, outcome, pick) ==
    IF enabled
    THEN IF outcome = "ok" THEN Returned("", LiveJoke, 1)
         ELSE Returned("", LOCAL_JOKES[pick], 1)
    ELSE Returned("", LOCAL_JOKES[pick], 0)

-----------------------------------------------------------------------------
(* get_weather (backend/services/weather.py) *)

TTL == 3600          \* seconds a cache entry is served
NoEntry == [ts |-> -1, desc |-> ""]

\* An entry that is exactly one TTL old still counts as fresh.
CacheFreshInclusive(entry, t) == entry # NoEntry /\ t - entry.ts <= TTL

\* time.time() - data.get("_ts", 0) < 3600
CacheFresh(entry, t) == entry # NoEntry /\ t - entry.ts < TTL

\* get_weather(city, units, api_key, cache_read, cache_write): the result and
\* the cache entry of the city afterwards. No try/except: raise_for_status and
\* the body lookups raise to the caller.
SvcGetWeather(entry, t, outcome, description) ==
    IF CacheFresh(entry, t)
    THEN [result |-> Returned(entry.desc, "", 0), entry |-> entry]
    ELSE IF outcome = "ok"
         THEN [result |-> Returned(Capitalize(description), "", 1),
               entry |-> [ts |-> t, desc |-> Capitalize(description)]]
         ELSE [result |-> Raised(1), entry |-> entry]

-----------------------------------------------------------------------------
(* The drawing layouts (backend/app.py) *)

\* Python numbers: int // int is an int, int * float is a float.
PyInt(n) == [v |-> n, isFloat |-> FALSE]
PyFloorDiv(a, b) == [v |-> a \div b, isFloat |-> FALSE]
\* a * (num/100) for a two-decimal float literal
PyMulFloat(a, num) == [v |-> (a * num) \div 100, isFloat |-> TRUE]
PySubFloat(a, f) == [v |-> a - f.v, isFloat |-> TRUE]

\* The size and position each layout gives to data['art'].resize / img.paste.
ArtResize(v) ==
    CASE v = 0 -> <<PyFloorDiv(DISPLAY_WIDTH, 2), PyInt(DISPLAY_HEIGHT)>>
      [] v = 1 -> <<PyInt(DISPLAY_WIDTH), PyMulFloat(DISPLAY_HEIGHT, 55)>>
      [] v = 2 -> <<PyMulFloat(DISPLAY_WIDTH, 45), PyInt(DISPLAY_HEIGHT)>>
      [] v = 3 -> <<PyInt(DISPLAY_WIDTH), PyInt(DISPLAY_HEIGHT)>>

ArtPasteAt(v) ==
    CASE v = 2 -> <<PySubFloat(DISPLAY_WIDTH, PyMulFloat(DISPLAY_WIDTH, 45)), PyInt(0)>>
      [] OTHER -> <<PyInt(0), PyInt(0)>>

\* Image.resize(size): returns a copy when size == self.size, otherwise hands
\* size to the C resampler, which takes integers only (TypeError on a float).
ResizeRaises(imgSize, size) ==
    /\ imgSize # <<size[1].v, size[2].v>>
    /\ (size[1].isFloat \/ size[2].isFloat)

\* Image.paste(im, box): the box must be integers.
PasteRaises(at) == at[1].isFloat \/ at[2].isFloat

\* The draw calls of each layout function, in source order.
LayoutElements(v) ==
    CASE v = 3 -> <<"background", "art", "info_box", "border", "location",
                    "date", "weather", "separator", "joke">>
      [] OTHER -> <<"background", "art", "info_box", "location",
                    "date", "weather", "separator", "joke">>

\* Does drawing element e of layout v raise?
ElementRaises(v, e, artSize) ==
    /\ e = "art"
    /\ (ResizeRaises(artSize, ArtResize(v)) \/ PasteRaises(ArtPasteAt(v)))

\* A layout function runs its draw calls in order; the first one that raises
\* ends the function (no try/except inside the layout functions).
RECURSIVE DrawFrom(_, _, _, _)
DrawFrom(v, i, artSize, done) ==
    IF i > Len(LayoutElements(v)) THEN [drawn |-> done, raised |-> FALSE]
    ELSE IF ElementRaises(v, LayoutElements(v)[i], artSize)
         THEN [drawn |-> done, raised |-> TRUE]
         ELSE DrawFrom(v, i + 1, artSize, Append(done, LayoutElements(v)[i]))

DrawLayout(v, artSize) == DrawFrom(v, 1, artSize, <<>>)

-----------------------------------------------------------------------------
(* _quantize_to_eink_palette (backend/app.py) *)

\* An image is a sequence of rows, a row a sequence of <<r, g, b>> pixels.

EINK_COLOR_TUPLES == <<
    <<0, 0, 0>>,        \* BLACK
    <<255, 255, 255>>,  \* WHITE
    <<255, 0, 0>>,      \* RED
    <<255, 255, 0>>,    \* YELLOW
    <<0, 128, 0>>,      \* GREEN
    <<0, 0, 255>> >>    \* BLUE

\* EINK_PALETTE, the hex colours of the drawing primitives, in dict order
EINK_PALETTE == <<
    <<0, 0, 0>>,        \* BLACK  #000000
    <<255, 255, 255>>,  \* WHITE  #FFFFFF
    <<255, 0, 0>>,      \* RED    #FF0000
    <<255, 255, 0>>,    \* YELLOW #FFFF00
    <<0, 0, 255>>,      \* BLUE   #0000FF
    <<0, 255, 0>> >>    \* GREEN  #00FF00

\* self.palette[name]
Palette(name) ==
    CASE name = "BLACK" -> EINK_PALETTE[1]
      [] name = "WHITE" -> EINK_PALETTE[2]
      [] name = "RED" -> EINK_PALETTE[3]
      [] name = "YELLOW" -> EINK_PALETTE[4]
      [] name = "BLUE" -> EINK_PALETTE[5]
      [] name = "GREEN" -> EINK_PALETTE[6]

\* The palette names the drawing function of variation v passes as fill= and
\* outline= (background, box, border, texts, separator)
LayoutPaletteNames(v) ==
    CASE v = 0 -> {"WHITE", "RED", "BLACK"}
      [] v = 1 -> {"WHITE", "YELLOW", "BLUE"}
      [] v = 2 -> {"RED", "WHITE", "GREEN", "BLACK"}
      [] v = 3 -> {"BLACK", "WHITE", "BLUE"}

LayoutColours(v) == {Palette(name) : name \in LayoutPaletteNames(v)}

PaletteBytes == 768  \* 256 * 3

\* palette_data padded with mid-grey instead of zeros
PaletteDataGreyPadding ==
    [i \in 1..PaletteBytes |->
        IF i <= 3 * Len(EINK_COLOR_TUPLES)
        THEN EINK_COLOR_TUPLES[((i - 1) \div 3) + 1][((i - 1) % 3) + 1]
        ELSE 128]

\* palette_data: r, g, b of each tuple, then zeros up to 768 values
PaletteData ==
    [i \in 1..PaletteBytes |->
        IF i <= 3 * Len(EINK_COLOR_TUPLES)
        THEN EINK_COLOR_TUPLES[((i - 1) \div 3) + 1][((i - 1) % 3) + 1]
        ELSE 0]

\* palette_img.putpalette(palette_data): entry i of the 256-colour palette
PaletteEntry(i) ==
    <<PaletteData[3 * i + 1], PaletteData[3 * i + 2], PaletteData[3 * i + 3]>>

PaletteIndices == 0..((PaletteBytes \div 3) - 1)

\* The distinct colours of the palette and the lowest index of each.
PaletteColours == {PaletteEntry(i) : i \in PaletteIndices}
LowestIndex ==
    [c \in PaletteColours |->
        CHOOSE i \in PaletteIndices :
            PaletteEntry(i) = c /\ \A j \in 0..(i - 1) : PaletteEntry(j) # c]

Dist2(a, b) ==
    (a[1] - b[1]) * (a[1] - b[1]) + (a[2] - b[2]) * (a[2] - b[2])
        + (a[3] - b[3]) * (a[3] - b[3])

\* Index of the palette entry closest to colour c (the lowest such index).
NearestIndex(c) ==
    LowestIndex[
        CHOOSE p \in PaletteColours :
            \A o \in PaletteColours :
                \/ Dist2(c, p) < Dist2(c, o)
                \/ Dist2(c, p) = Dist2(c, o) /\ LowestIndex[p] <= LowestIndex[o]]

Clip8(n) == IF n < 0 THEN 0 ELSE IF n > 255 THEN 255 ELSE n
\* integer division rounding toward zero
TruncDiv(a, b) == IF a >= 0 THEN a \div b ELSE -((-a) \div b)

VAdd(a, b) == <<a[1] + b[1], a[2] + b[2], a[3] + b[3]>>
VSub(a, b) == <<a[1] - b[1], a[2] - b[2], a[3] - b[3]>>
VScale(k, a) == <<k * a[1], k * a[2], k * a[3]>>
Zero3 == <<0, 0, 0>>

\* The colour a pixel is matched with: its own plus the error diffused to it,
\* in sixteenths, clipped to a byte.
Adjusted(pixel, err16) ==
    <<Clip8(pixel[1] + TruncDiv(err16[1], 16)),
      Clip8(pixel[2] + TruncDiv(err16[2], 16)),
      Clip8(pixel[3] + TruncDiv(err16[3], 16))>>

\* One row of Floyd-Steinberg dithering. above[x] is the error (in sixteenths)
\* the row above left for column x: 3/16 from its column x+1, 5/16 from x,
\* 1/16 from x-1. carry is 7/16 of the error of the pixel to the left.
\* Returns the row's palette indices and the errors for the row below.
RECURSIVE DitherRow(_, _, _, _, _, _)
DitherRow(row, above, x, carry, errs, out) ==
    IF x > Len(row) THEN [out |-> out, errs |-> errs]
    ELSE LET c == Adjusted(row[x], VAdd(carry, above[x]))
             idx == NearestIndex(c)
             e == VSub(c, PaletteEntry(idx))
         IN DitherRow(row, above, x + 1, VScale(7, e), Append(errs, e),
                      Append(out, idx))

\* The errors row y leaves for row y+1, per column, from its pixel errors.
Below(errs) ==
    [x \in 1..Len(errs) |->
        VAdd(VAdd(IF x < Len(errs) THEN VScale(3, errs[x + 1]) ELSE Zero3,
                  VScale(5, errs[x])),
             IF x > 1 THEN errs[x - 1] ELSE Zero3)]

RECURSIVE DitherRows(_, _, _, _)
DitherRows(img, y, above, out) ==
    IF y > Len(img) THEN out
    ELSE LET r == DitherRow(img[y], above, 1, Zero3, <<>>, <<>>)
         IN DitherRows(img, y + 1, Below(r.errs), Append(out, r.out))

\* img.quantize(palette=palette_img, dither=FLOYDSTEINBERG): a mode-P image
QuantizeToIndices(img) ==
    IF Len(img) = 0 THEN <<>>
    ELSE DitherRows(img, 1, [x \in 1..Len(img[1]) |-> Zero3], <<>>)

\* Indices turned into the colours of the drawing palette, not the quantizer's
IndicesToRGBDrawingPalette(pimg) ==
    [y \in 1..Len(pimg) |->
        [x \in 1..Len(pimg[y]) |->
            IF pimg[y][x] < Len(EINK_PALETTE)
            THEN EINK_PALETTE[pimg[y][x] + 1]
            ELSE Zero3]]

\* quantized_img.convert("RGB"): every index becomes its palette colour
IndicesToRGB(pimg) ==
    [y \in 1..Len(pimg) |-> [x \in 1..Len(pimg[y]) |-> PaletteEntry(pimg[y][x])]]

quantize_to_eink_palette(img) == IndicesToRGB(QuantizeToIndices(img))

-----------------------------------------------------------------------------
(* One request through generate_display_image (backend/app.py) *)

VariationArgs == {NumArg(n) : n \in 0..MaxVariationArg} \cup {BadArg}

Stores == {st \in SUBSET BlobKeys : Cardinality(st) <= MaxBlobs}

Cities == {"Darwin", "Sydney"}
Units == {"metric", "imperial"}
\* cache/weather/{_hash(city_key + '|' + units)}.json: the object names of
\* distinct city|units texts are taken to be distinct
CacheKey(city, units) == <<city, units>>
\* The cached service is exercised with DEFAULT_CITY and either unit system
SvcCities == {"Darwin"}
CacheKeys == {CacheKey(c, u) : c \in SvcCities, u \in Units}

NoCall == [fn |-> "none", city |-> "", units |-> "", keyed |-> FALSE, enabled |-> FALSE,
           outcome |-> "none", result |-> Raised(0)]

\* Prefixes of the bucket that hold names of the date_day_var.png form
Prefixes == {WEEKLY_ART, "archive/"}
ObjectNames == [prefix : Prefixes, key : BlobKeys]
\* The subsets of S with at most n elements
RECURSIVE SetsUpTo(_, _)
SetsUpTo(S, n) ==
    IF n = 0 THEN {{}}
    ELSE LET smaller == SetsUpTo(S, n - 1)
         IN smaller \cup {b \cup {o} : b \in smaller, o \in S}

Buckets == SetsUpTo(ObjectNames, MaxObjects)

NoScan == [called |-> FALSE, objects |-> {}, up |-> FALSE, day |-> 0, var |-> 0,
           outcome |-> "none", blob |-> NoBlob]

\* layouts/{device}.json and users/{user}/devices/{device}/layouts/current.json
LayoutKeys == [user : {"", "a_at_b_c"}, device : {"familydisplay", "kitchen"}]

NoLayout == [doc |-> "none", key |-> [user |-> "", device |-> ""]]

NoLayoutCall == [called |-> FALSE, enabled |-> FALSE, emailUsers |-> FALSE,
                 username |-> "", device |-> "", up |-> FALSE,
                 persisted |-> [k \in LayoutKeys |-> "absent"],
                 preset |-> "missing", kind |-> "none", layout |-> NoLayout]

Usernames == {"", "a@b.c"}           \* "" stands for None
DeviceArgs == {"", "familydisplay", "kitchen"}
PersistedStates == {"absent", "document", "garbage"}
PresetStates == {"present", "missing", "corrupt"}

\* email.replace("@", "_at_").replace(".", "_")
safe_email(email) == IF email = "a@b.c" THEN "a_at_b_c" ELSE email

\* load_local_preset: the parsed Theme 1.json, None if it is missing or
\* json.load raises
load_local_preset(preset) ==
    IF preset = "present" THEN [NoLayout EXCEPT !.doc = "preset"] ELSE NoLayout

\* The key load_layout_for reads
LayoutKey(emailUsers, username, device) ==
    LET d == IF device = "" THEN "familydisplay" ELSE device
    IN IF emailUsers /\ username # ""
       THEN [user |-> safe_email(username), device |-> d]
       ELSE [user |-> "", device |-> d]

\* load_layout_for: the persisted document when the store is enabled, answers,
\* holds the key and the bytes parse; every exception is caught and leads,
\* like a missing key, to the local preset.
load_layout_for(enabled, emailUsers, username, device, up, persisted, preset) ==
    LET key == LayoutKey(emailUsers, username, device)
    IN IF enabled /\ up /\ persisted[key] = "document"
       THEN [doc |-> "persisted", key |-> key]
       ELSE load_local_preset(preset)

NoWxCall == [called |-> FALSE, keyed |-> FALSE, outcome |-> "none",
             condition |-> "", result |-> [icon |-> "", condition |-> ""]]
NoFcCall == [called |-> FALSE, enabled |-> FALSE, keyed |-> FALSE, outcome |-> "none",
             days |-> 0, today |-> 0, raw_list |-> <<>>, raised |-> FALSE, out |-> <<>>]

HelpersIdle ==
    /\ scan = NoScan
    /\ layoutCall = NoLayoutCall
    /\ wxCall = NoWxCall
    /\ fcCall = NoFcCall

JobIdle ==
    /\ job = <<>>

RolloverIdle ==
    /\ roll = <<>>

RendererIdle ==
    /\ ENABLE_RENDERING = TRUE
    /\ ENABLE_RENDER_NOW = TRUE
    /\ playwright_browser = "none"
    /\ started = "no"
    /\ open_pages = 0
    /\ frames = <<>>

RotationIdle ==
    /\ storage_enabled = TRUE
    /\ pexCurrent = <<>>
    /\ pexCache = <<>>
    /\ rot = <<>>
    /\ weekly = <<>>

\* The wrappers and the quantizer at rest, while a request is followed.
ProvidersIdle ==
    /\ ENABLE_OPENWEATHER = TRUE
    /\ OPENWEATHER_KEY = TRUE
    /\ ENABLE_JOKES_API = TRUE
    /\ now = 0
    /\ cache = [k \in CacheKeys |-> NoEntry]
    /\ call = NoCall

QuantIdle ==
    /\ qpc = "off"
    /\ qimg = <<>>
    /\ qout = <<>>
    /\ qout2 = <<>>

RenderIdle ==
    /\ bucket = {}
    /\ gcsUp = TRUE
    /\ localFile = "missing"
    /\ today = 0
    /\ reqVariation = NumArg(0)
    /\ pc = "off"
    /\ variation_index = 0
    /\ attempts = <<>>
    /\ art = NoImage
    /\ raised = FALSE
    /\ weather = [text |-> "", failed |-> FALSE]
    /\ joke = [text |-> "", failed |-> FALSE]
    /\ drawn = <<>>
    /\ steps = <<>>
    /\ response = NoResponse

Init ==
    /\ ProvidersIdle
    /\ QuantIdle
    /\ HelpersIdle
    /\ RotationIdle
    /\ JobIdle
    /\ RolloverIdle
    /\ RendererIdle
    /\ bucket \in Stores
    /\ gcsUp \in BOOLEAN
    /\ localFile \in LocalFileStates
    /\ today \in DayIndices
    /\ reqVariation \in VariationArgs
    /\ pc = "start"
    /\ variation_index = 0
    /\ attempts = <<>>
    /\ art = NoImage
    /\ raised = FALSE
    /\ weather = [text |-> "", failed |-> FALSE]
    /\ joke = [text |-> "", failed |-> FALSE]
    /\ drawn = <<>>
    /\ steps = <<>>
    /\ response = NoResponse

\* An exception that leaves the view function: Flask answers 500.
ErrorResponse == [status |-> 500, mimetype |-> "text/html", size |-> <<0, 0>>]

\* request.args.get('variation', '0'); int(...) % 4; then fetch_ai_image is entered
ParseRequest ==
    /\ pc = "start"
    /\ variation_index' = ParseVariation(reqVariation)
    /\ pc' = "fresh"
    /\ UNCHANGED <<renderEnv, otherThanRender, attempts, art,
                   raised, weather, joke, drawn, steps, response>>

\* What fetch_ai_image does with a tier's outcome: keep the image and go on to
\* quantize it, try the next tier, or let the exception escape the request.
AfterTier(tier, outcome) ==
    /\ attempts' = Append(attempts, tier)
    /\ LET next == Escalate(tier, outcome)
       IN IF next = "raise"
          THEN /\ raised' = TRUE
               /\ response' = ErrorResponse
               /\ pc' = "done"
               /\ UNCHANGED <<art, steps>>
          ELSE /\ pc' = next
               /\ UNCHANGED <<raised, response>>
               /\ IF next = "quantize"
                  THEN /\ \E sz \in ArtSizes :
                            art' = [tier |-> tier, quantized |-> FALSE, size |-> sz]
                       /\ steps' = Append(steps, "resolve")
                  ELSE UNCHANGED <<art, steps>>
    /\ UNCHANGED <<renderEnv, otherThanRender, variation_index,
                   weather, joke, drawn>>

\* Attempt 1: fresh GCS blob
TryFresh ==
    /\ pc = "fresh"
    /\ AfterTier("fresh", FreshLookup(bucket, gcsUp, today, variation_index))

\* Attempt 2: local fallback
TryLocal ==
    /\ pc = "local"
    /\ AfterTier("local_fallback", LoadLocalFallback(localFile))

\* Attempt 3: stale GCS scan
TryStale ==
    /\ pc = "stale"
    /\ AfterTier("stale_remote",
                 FetchStaleGcsData(bucket, gcsUp, today, variation_index))

\* Final fallback: the hardcoded red image, returned as it is
Placeholder ==
    /\ pc = "placeholder"
    /\ attempts' = Append(attempts, "placeholder")
    /\ art' = [tier |-> "placeholder", quantized |-> FALSE,
               size |-> <<DISPLAY_WIDTH, DISPLAY_HEIGHT>>]
    /\ steps' = Append(steps, "resolve")
    /\ pc' = "weather"
    /\ UNCHANGED <<renderEnv, otherThanRender, variation_index,
                   raised, weather, joke, drawn, response>>

\* return self._quantize_to_eink_palette(img_to_quantize)
QuantizeArt ==
    /\ pc = "quantize"
    /\ art' = [art EXCEPT !.quantized = TRUE]
    /\ steps' = Append(steps, "quantize")
    /\ pc' = "weather"
    /\ UNCHANGED <<renderEnv, otherThanRender, variation_index,
                   attempts, raised, weather, joke, drawn, response>>

\* weather = self._fetch_weather(location)
FetchWeather ==
    /\ pc = "weather"
    /\ \E o \in WeatherOutcomes :
         weather' = [text |-> FetchWeatherApp(o), failed |-> (o # "ok")]
    /\ pc' = "joke"
    /\ UNCHANGED <<renderEnv, otherThanRender, variation_index,
                   attempts, art, raised, joke, drawn, steps, response>>

\* joke = self._fetch_joke()
FetchJoke ==
    /\ pc = "joke"
    /\ \E o \in JokeOutcomes :
         joke' = [text |-> FetchJokeApp(o), failed |-> (o # "ok")]
    /\ pc' = "layout"
    /\ UNCHANGED <<renderEnv, otherThanRender, variation_index,
                   attempts, art, raised, weather, drawn, steps, response>>

\* final_img = Image.new(...); final_img = drawing_func(data)
ApplyLayout ==
    /\ pc = "layout"
    /\ LET res == DrawLayout(variation_index, art.size)
           resized == \E i \in DOMAIN res.drawn : res.drawn[i] = "art"
           log == IF resized THEN Append(steps, "normalize") ELSE steps
       IN /\ drawn' = res.drawn
          /\ IF res.raised
             THEN /\ raised' = TRUE
                  /\ response' = ErrorResponse
                  /\ steps' = log
                  /\ pc' = "done"
             ELSE /\ steps' = Append(log, "layout")
                  /\ pc' = "respond"
                  /\ UNCHANGED <<raised, response>>
    /\ UNCHANGED <<renderEnv, otherThanRender, variation_index,
                   attempts, art, weather, joke>>

\* final_img.save(img_io, 'PNG'); send_file(img_io, mimetype='image/png')
Respond ==
    /\ pc = "respond"
    /\ response' = [status |-> 200, mimetype |-> "image/png",
                    size |-> <<DISPLAY_WIDTH, DISPLAY_HEIGHT>>]
    /\ steps' = Append(steps, "encode")
    /\ pc' = "done"
    /\ UNCHANGED <<renderEnv, otherThanRender, variation_index,
                   attempts, art, raised, weather, joke, drawn>>

Next ==
    \/ ParseRequest
    \/ TryFresh
    \/ TryLocal
    \/ TryStale
    \/ Placeholder
    \/ QuantizeArt
    \/ FetchWeather
    \/ FetchJoke
    \/ ApplyLayout
    \/ Respond

Spec == Init /\ [][Next]_vars

-----------------------------------------------------------------------------
(* The weather and joke wrappers called on their own *)

\* The clock moves in steps of half the cache TTL.
Tick ==
    /\ pc = "off"
    /\ qpc = "off"
    /\ now < MaxTicks * (TTL \div 2)
    /\ now' = now + (TTL \div 2)
    /\ UNCHANGED <<ENABLE_OPENWEATHER, OPENWEATHER_KEY, ENABLE_JOKES_API, cache, call>>
    /\ UNCHANGED otherThanProviders

Called(fn, city, outcome, result) ==
    [fn |-> fn, city |-> city, units |-> "", keyed |-> OPENWEATHER_KEY,
     enabled |-> IF fn = "main.get_joke" THEN ENABLE_JOKES_API ELSE ENABLE_OPENWEATHER,
     outcome |-> outcome, result |-> result]

\* A call leaves everything but its record (and, for one wrapper, the cache).
OnlyCall ==
    /\ pc = "off"
    /\ qpc = "off"
    /\ UNCHANGED <<ENABLE_OPENWEATHER, OPENWEATHER_KEY, ENABLE_JOKES_API, now>>
    /\ UNCHANGED otherThanProviders

\* The provider answers 401 to a request without a key.
ProviderCan(outcome) == outcome = "ok" => OPENWEATHER_KEY

CallMainGetWeather ==
    /\ OnlyCall
    /\ \E city \in Cities, outcome \in WeatherOutcomes, d \in Descriptions :
         /\ ProviderCan(outcome)
         /\ call' = Called("main.get_weather", city, outcome,
                           MainGetWeather(ENABLE_OPENWEATHER, OPENWEATHER_KEY, outcome, d))
    /\ UNCHANGED cache

\* api_key is the configured key, "" when none is configured
CallSvcGetWeather ==
    /\ OnlyCall
    /\ \E city \in SvcCities, units \in Units, outcome \in WeatherOutcomes, d \in Descriptions :
         /\ ProviderCan(outcome)
         /\ LET cache_key == CacheKey(city, units)
                r == SvcGetWeather(cache[cache_key], now, outcome, d)
            IN /\ call' = [Called("services.get_weather", city, outcome, r.result)
                              EXCEPT !.units = units]
               /\ cache' = [cache EXCEPT ![cache_key] = r.entry]

CallMainGetJoke ==
    /\ OnlyCall
    /\ \E outcome \in JokeOutcomes, pick \in DOMAIN LOCAL_JOKES :
         call' = Called("main.get_joke", "", outcome,
                        MainGetJoke(ENABLE_JOKES_API, outcome, pick))
    /\ UNCHANGED cache

CallAppFetchWeather ==
    /\ OnlyCall
    /\ \E outcome \in WeatherOutcomes :
         call' = Called("app._fetch_weather", "Darwin", outcome,
                        Returned(FetchWeatherApp(outcome), "", 1))
    /\ UNCHANGED cache

CallAppFetchJoke ==
    /\ OnlyCall
    /\ \E outcome \in JokeOutcomes :
         call' = Called("app._fetch_joke", "", outcome,
                        Returned("", FetchJokeApp(outcome), 1))
    /\ UNCHANGED cache

InitProviders ==
    /\ RenderIdle
    /\ QuantIdle
    /\ HelpersIdle
    /\ RotationIdle
    /\ JobIdle
    /\ RolloverIdle
    /\ RendererIdle
    /\ ENABLE_OPENWEATHER \in BOOLEAN
    /\ OPENWEATHER_KEY \in BOOLEAN
    /\ ENABLE_JOKES_API \in BOOLEAN
    /\ now = 0
    /\ cache = [k \in CacheKeys |-> NoEntry]
    /\ call = NoCall

NextProviders ==
    \/ Tick
    \/ CallMainGetWeather
    \/ CallSvcGetWeather
    \/ CallMainGetJoke
    \/ CallAppFetchWeather
    \/ CallAppFetchJoke

SpecProviders == InitProviders /\ [][NextProviders]_vars

-----------------------------------------------------------------------------
(* The quantizer applied to small images *)

SampleColours ==
    {<<0, 0, 0>>, <<0, 128, 0>>, <<128, 128, 128>>, <<255, 128, 0>>, <<250, 250, 250>>}

Shapes == {sh \in (1..MaxPixels) \X (1..MaxPixels) : sh[1] * sh[2] <= MaxPixels}

\* The images of width sh[1] and height sh[2] over the sample colours
Images == UNION {[1..sh[2] -> [1..sh[1] -> SampleColours]] : sh \in Shapes}

Quantize ==
    /\ qpc = "input"
    /\ qout' = quantize_to_eink_palette(qimg)
    /\ qpc' = "once"
    /\ UNCHANGED <<qimg, qout2>>
    /\ UNCHANGED otherThanQuant

QuantizeAgain ==
    /\ qpc = "once"
    /\ qout2' = quantize_to_eink_palette(qout)
    /\ qpc' = "twice"
    /\ UNCHANGED <<qimg, qout>>
    /\ UNCHANGED otherThanQuant

InitQuant ==
    /\ RenderIdle
    /\ ProvidersIdle
    /\ HelpersIdle
    /\ RotationIdle
    /\ JobIdle
    /\ RolloverIdle
    /\ RendererIdle
    /\ qimg \in Images
    /\ qpc = "input"
    /\ qout = <<>>
    /\ qout2 = <<>>

NextQuant ==
    \/ Quantize
    \/ QuantizeAgain

SpecQuant == InitQuant /\ [][NextQuant]_vars

-----------------------------------------------------------------------------
(* _fetch_stale_gcs_data called on its own, on a bucket with several prefixes *)

RunStaleScan ==
    /\ ~scan.called
    /\ pc = "off"
    /\ scan' = [scan EXCEPT
                  !.called = TRUE,
                  !.outcome = FetchStaleGcsData(
                                  {o.key : o \in {x \in scan.objects : x.prefix = WEEKLY_ART}},
                                  scan.up, scan.day, scan.var),
                  !.blob = StaleBlob(scan.objects, scan.up, scan.day, scan.var)]
    /\ UNCHANGED <<layoutCall, wxCall, fcCall>>
    /\ UNCHANGED otherThanHelpers

InitStale ==
    /\ RenderIdle
    /\ ProvidersIdle
    /\ QuantIdle
    /\ RotationIdle
    /\ JobIdle
    /\ RolloverIdle
    /\ RendererIdle
    /\ layoutCall = NoLayoutCall
    /\ wxCall = NoWxCall
    /\ fcCall = NoFcCall
    /\ \E objects \in Buckets, up \in BOOLEAN, day \in DayIndices, var \in VariationIndices :
         scan = [NoScan EXCEPT !.objects = objects, !.up = up, !.day = day, !.var = var]

NextStale == RunStaleScan

SpecStale == InitStale /\ [][NextStale]_vars

-----------------------------------------------------------------------------
(* load_layout_for called on its own *)

RunLoadLayoutFor ==
    /\ ~layoutCall.called
    /\ pc = "off"
    /\ layoutCall' = [layoutCall EXCEPT
                        !.called = TRUE,
                        !.kind = "returned",
                        !.layout = load_layout_for(
                                       layoutCall.enabled, layoutCall.emailUsers,
                                       layoutCall.username, layoutCall.device,
                                       layoutCall.up, layoutCall.persisted,
                                       layoutCall.preset)]
    /\ UNCHANGED <<scan, wxCall, fcCall>>
    /\ UNCHANGED otherThanHelpers

InitLayout ==
    /\ RenderIdle
    /\ ProvidersIdle
    /\ QuantIdle
    /\ RotationIdle
    /\ JobIdle
    /\ RolloverIdle
    /\ RendererIdle
    /\ scan = NoScan
    /\ wxCall = NoWxCall
    /\ fcCall = NoFcCall
    /\ \E enabled \in BOOLEAN, emailUsers \in BOOLEAN, username \in Usernames,
          device \in DeviceArgs, up \in BOOLEAN,
          persisted \in [LayoutKeys -> PersistedStates], preset \in PresetStates :
         layoutCall = [NoLayoutCall EXCEPT
                         !.enabled = enabled, !.emailUsers = emailUsers,
                         !.username = username, !.device = device, !.up = up,
                         !.persisted = persisted, !.preset = preset]

NextLayout == RunLoadLayoutFor

SpecLayout == InitLayout /\ [][NextLayout]_vars

-----------------------------------------------------------------------------
(* /admin/prefetch (backend/main.py) and prefetch_weekly_set (services/pexels.py) *)

\* One theme is configured (THEMES); its objects are numbered by idx.
Requests == 1..MaxRequests
Slots == 0..(MaxUrls - 1)
Photos == 1..MaxPhotos

\* A partition of the bucket: the photo stored at each idx, 0 where none is
Partitions == [Slots -> 0..MaxPhotos]
EmptyPartition == [i \in Slots |-> 0]
DistinctIds(part) ==
    \A i, j \in Slots : (i # j /\ part[i] # 0) => part[i] # part[j]

\* What the provider can answer: photos with distinct ids, in some order
Responses ==
    {q \in UNION {[1..n -> Photos] : n \in 0..MaxUrls} :
        \A i, j \in DOMAIN q : i # j => q[i] # q[j]}

IdleRequest == [pc |-> "idle", blobs |-> EmptyPartition, rolled_over |-> FALSE,
                urls |-> <<>>, idx |-> 0, saved |-> 0, providerFailed |-> FALSE,
                status |-> 0]

\* The idx of the objects list_blobs(prefix="pexels/current/") returns
Listed(cur) == {i \in Slots : cur[i] # 0}

\* copy_blob + delete of the first n listed blobs; with copyOnly, the next one
\* is copied but not yet deleted
MovedSlots(cur, n) == {i \in Listed(cur) : Cardinality({j \in Listed(cur) : j < i}) < n}
NextSlots(cur, n) == {i \in Listed(cur) : Cardinality({j \in Listed(cur) : j < i}) = n}

CacheAfterMove(cur, dated, n, copyOnly) ==
    [i \in Slots |->
        IF i \in MovedSlots(cur, n) \/ (copyOnly /\ i \in NextSlots(cur, n))
        THEN cur[i] ELSE dated[i]]

CurrentAfterMove(cur, n) ==
    [i \in Slots |-> IF i \in MovedSlots(cur, n) THEN 0 ELSE cur[i]]

\* The token check and the rollover block: no await in between.
\* how: "all" the loop completes; "copy"/"delete" that call raises at blob n+1;
\* "list" list_blobs raises.
StartAndRollover(r) ==
    /\ rot[r].pc = "idle"
    /\ \E tokenOk \in BOOLEAN :
         IF ~tokenOk
         THEN /\ rot' = [rot EXCEPT ![r].pc = "done", ![r].status = 403]
              /\ UNCHANGED <<pexCurrent, pexCache>>
         ELSE IF ~storage_enabled
         THEN /\ rot' = [rot EXCEPT ![r].pc = "fetch"]
              /\ UNCHANGED <<pexCurrent, pexCache>>
         ELSE \E how \in {"all", "copy", "delete", "list"}, n \in 0..MaxUrls :
                /\ how = "all" => n = Cardinality(Listed(pexCurrent))
                /\ how \in {"copy", "delete"} => n < Cardinality(Listed(pexCurrent))
                /\ how = "list" => n = 0
                /\ pexCache' = CacheAfterMove(pexCurrent, pexCache, n, how = "delete")
                /\ pexCurrent' = CurrentAfterMove(pexCurrent, n)
                /\ rot' = [rot EXCEPT
                             ![r].blobs = IF how = "list" THEN EmptyPartition ELSE pexCurrent,
                             ![r].rolled_over = how # "list" /\ Listed(pexCurrent) # {},
                             ![r].pc = IF how = "all" THEN "fetch" ELSE "done",
                             ![r].status = IF how = "all" THEN 0 ELSE 500]
    /\ UNCHANGED <<storage_enabled, weekly>>
    /\ UNCHANGED otherThanRotation

\* urls = await pexels_fetch_images(theme): [] on a missing key, a non-200
\* answer or an exception
FetchUrls(r) ==
    /\ rot[r].pc = "fetch"
    /\ \E ok \in BOOLEAN, q \in Responses :
         /\ ~ok => q = <<>>
         /\ rot' = [rot EXCEPT
                      ![r].urls = q,
                      ![r].providerFailed = ~ok,
                      ![r].pc = IF q = <<>> THEN "done" ELSE "download",
                      ![r].status = IF q = <<>> THEN 200 ELSE 0]
    /\ UNCHANGED <<storage_enabled, pexCurrent, pexCache, weekly>>
    /\ UNCHANGED otherThanRotation

\* One turn of the url loop: await client.get(url), then gcs_write_bytes; the
\* inner try swallows a failed download and a failed write.
DownloadOne(r) ==
    /\ rot[r].pc = "download"
    /\ \E got \in {"200", "other", "raise"}, written \in BOOLEAN :
         LET i == rot[r].idx
             saves == got = "200" /\ storage_enabled /\ written
             last == i + 1 = Len(rot[r].urls)
         IN /\ got # "200" => written = FALSE
            /\ pexCurrent' = IF saves THEN [pexCurrent EXCEPT ![i] = rot[r].urls[i + 1]]
                             ELSE pexCurrent
            /\ rot' = [rot EXCEPT
                         ![r].idx = i + 1,
                         ![r].saved = IF saves THEN @ + 1 ELSE @,
                         ![r].pc = IF last THEN "done" ELSE "download",
                         ![r].status = IF last THEN 200 ELSE 0]
    /\ UNCHANGED <<storage_enabled, pexCache, weekly>>
    /\ UNCHANGED otherThanRotation

\* The photo loop of prefetch_weekly_set from index i on: a key that exists is
\* skipped, a download that is not a 200 writes nothing, an exception ends it.
RECURSIVE PrefetchFrom(_, _, _, _)
PrefetchFrom(cur, photos, i, got) ==
    IF i >= Len(photos) THEN cur
    ELSE IF cur[i] # 0 THEN PrefetchFrom(cur, photos, i + 1, got)
    ELSE IF got[i] = "raise" THEN cur
    ELSE IF got[i] = "200"
         THEN PrefetchFrom([cur EXCEPT ![i] = photos[i + 1]], photos, i + 1, got)
         ELSE PrefetchFrom(cur, photos, i + 1, got)

\* prefetch_weekly_set(theme, api_key, per_theme_count, exists_fn, write_fn);
\* photos is the answer after random.shuffle and [:per_theme_count]
PrefetchWeeklySet ==
    /\ \E ok \in BOOLEAN, photos \in Responses, got \in [Slots -> {"200", "other", "raise"}] :
         /\ ~ok => photos = <<>>
         /\ weekly' = PrefetchFrom(weekly, photos, 0, got)
         /\ weekly' # weekly
    /\ UNCHANGED <<storage_enabled, pexCurrent, pexCache, rot>>
    /\ UNCHANGED otherThanRotation

\* pick_random_key(theme, per_theme_count): pexels/{folder}/{theme}/v_{idx}.jpg,
\* use_cache being random.random() < rand_ratio and idx the random.randint draw
pick_random_key(use_cache, idx) ==
    [folder |-> IF use_cache THEN "cache" ELSE "current", idx |-> idx]

\* random.randint(0, per_theme_count - 1)
PickIndices(per_theme_count) == 0..(per_theme_count - 1)

InitRotation ==
    /\ RenderIdle
    /\ ProvidersIdle
    /\ QuantIdle
    /\ HelpersIdle
    /\ JobIdle
    /\ RolloverIdle
    /\ RendererIdle
    /\ storage_enabled \in BOOLEAN
    /\ pexCurrent \in {p \in Partitions : DistinctIds(p)}
    /\ pexCache = EmptyPartition
    /\ weekly \in {p \in Partitions : DistinctIds(p)}
    /\ rot = [r \in Requests |-> IdleRequest]

NextRotation ==
    \/ \E r \in Requests : StartAndRollover(r)
    \/ \E r \in Requests : FetchUrls(r)
    \/ \E r \in Requests : DownloadOne(r)
    \/ PrefetchWeeklySet

\* The bucket's objects as the resolver's list_blobs sees them
PEXELS_CURRENT == "pexels/current/"
PEXELS_CACHE == "pexels/cache/<today>/"
PexelsObjects(prefix, part) ==
    {[prefix |-> prefix, key |-> [theme |-> "abstract", idx |-> i]] : i \in Listed(part)}
BucketObjects ==
    PexelsObjects(PEXELS_CURRENT, pexCurrent) \cup PexelsObjects(PEXELS_CACHE, pexCache)

SpecRotation == InitRotation /\ [][NextRotation]_vars

-----------------------------------------------------------------------------
(* fetch_weather_data of app.py called on its own *)

\* The icons of self.weather_symbols, by name; "unknown" is the question mark
\* that stands for every other condition
weather_symbols(condition) ==
    CASE condition = "Clear" -> "sun"
      [] condition = "Clouds" -> "cloud"
      [] condition = "Rain" -> "rain"
      [] condition = "Drizzle" -> "drizzle"
      [] condition = "Thunderstorm" -> "thunderstorm"
      [] condition = "Snow" -> "snow"
      [] condition \in {"Mist", "Haze", "Smoke"} -> "fog"
      [] OTHER -> "unknown"

\* What data['weather'][0]['main'] is drawn from: the provider's groups, two
\* of its descriptions and texts it does not document
Conditions ==
    {"Clear", "Clouds", "Rain", "Drizzle", "Thunderstorm", "Snow", "Mist",
     "Haze", "Smoke", "Fog", "Tornado", "light rain", "few clouds", "rain", ""}

\* Outcomes of the GET: "ok"; raise_for_status raises; the request times out;
\* the body lacks main.temp, main.temp_min or weather[0].main
WxOutcomes == {"ok", "http_error", "timeout", "bad_body"}

fetch_weather_data(keyed, outcome, condition) ==
    IF ~keyed THEN [icon |-> "unknown", condition |-> "Default"]
    ELSE IF outcome # "ok" THEN [icon |-> "unknown", condition |-> "Unknown"]
    ELSE [icon |-> weather_symbols(condition), condition |-> condition]

RunFetchWeatherData ==
    /\ ~wxCall.called
    /\ wxCall.outcome # "none"
    /\ wxCall' = [wxCall EXCEPT
                    !.called = TRUE,
                    !.result = fetch_weather_data(wxCall.keyed, wxCall.outcome,
                                                  wxCall.condition)]
    /\ UNCHANGED <<scan, layoutCall, fcCall>>
    /\ UNCHANGED otherThanHelpers

InitSymbols ==
    /\ RenderIdle
    /\ ProvidersIdle
    /\ QuantIdle
    /\ RotationIdle
    /\ JobIdle
    /\ RolloverIdle
    /\ RendererIdle
    /\ scan = NoScan
    /\ layoutCall = NoLayoutCall
    /\ fcCall = NoFcCall
    /\ \E keyed \in BOOLEAN, outcome \in WxOutcomes, condition \in Conditions :
         wxCall = [NoWxCall EXCEPT !.keyed = keyed, !.outcome = outcome,
                                   !.condition = condition]

NextSymbols == RunFetchWeatherData

SpecSymbols == InitSymbols /\ [][NextSymbols]_vars

-----------------------------------------------------------------------------
(* The Playwright renderer and its two routes (backend/main.py) *)

FrameRequests == 1..MaxFrames
IdleFrame == [route |-> "none", tokenOk |-> FALSE, pc |-> "idle", status |-> 0,
              invoked |-> FALSE]

\* A start-up that leaves rendering enabled although the browser is missing.
StartupKeepsEnabled(enabled, outcome) ==
    IF ~enabled THEN [ENABLE_RENDERING |-> FALSE, browser |-> "none", how |-> "skipped"]
    ELSE IF outcome = "ok"
         THEN [ENABLE_RENDERING |-> TRUE, browser |-> "browser", how |-> "ready"]
         ELSE [ENABLE_RENDERING |-> TRUE, browser |-> "none", how |-> "failed"]

\* startup_event: outcome "ok", or async_playwright().start() / chromium.launch
\* raises
Startup(enabled, outcome) ==
    IF ~enabled THEN [ENABLE_RENDERING |-> FALSE, browser |-> "none", how |-> "skipped"]
    ELSE IF outcome = "ok"
         THEN [ENABLE_RENDERING |-> TRUE, browser |-> "browser", how |-> "ready"]
         ELSE [ENABLE_RENDERING |-> FALSE, browser |-> "none", how |-> "failed"]

startup_event ==
    /\ started = "no"
    /\ \E outcome \in {"ok", "start_raises", "launch_raises"} :
         LET r == Startup(ENABLE_RENDERING, outcome)
         IN /\ ENABLE_RENDERING' = r.ENABLE_RENDERING
            /\ playwright_browser' = r.browser
            /\ started' = r.how
    /\ UNCHANGED <<ENABLE_RENDER_NOW, open_pages, frames>>
    /\ UNCHANGED otherThanRenderer

\* The checks at the head of v1_frame and admin_render_now: the status they
\* answer, 0 if the handler goes on
HeadStatus(route, tokenOk) ==
    IF route = "render_now" /\ ~tokenOk THEN 403
    ELSE IF route = "render_now" /\ ~ENABLE_RENDER_NOW THEN 403
    ELSE IF ~ENABLE_RENDERING THEN 503
    ELSE 0

BeginFrame(r) ==
    /\ started # "no"
    /\ frames[r].pc = "idle"
    /\ \E route \in {"frame", "render_now"}, tokenOk \in BOOLEAN :
         /\ route = "frame" => tokenOk
         /\ LET st == HeadStatus(route, tokenOk)
            IN frames' = [frames EXCEPT
                            ![r].route = route, ![r].tokenOk = tokenOk,
                            ![r].status = st,
                            ![r].pc = IF st = 0 THEN "data" ELSE "done"]
    /\ UNCHANGED <<ENABLE_RENDERING, ENABLE_RENDER_NOW, playwright_browser, started, open_pages>>
    /\ UNCHANGED otherThanRenderer

\* await load_layout_for(...); await build_render_data(...)
BuildRenderData(r) ==
    /\ frames[r].pc = "data"
    /\ frames' = [frames EXCEPT ![r].pc = "render"]
    /\ UNCHANGED <<ENABLE_RENDERING, ENABLE_RENDER_NOW, playwright_browser, started, open_pages>>
    /\ UNCHANGED otherThanRenderer

\* render_html_to_png up to new_page: RuntimeError when rendering is off or
\* there is no browser; new_page itself may raise. The handler answers 500.
OpenPage(r) ==
    /\ frames[r].pc = "render"
    /\ \E opened \in BOOLEAN :
         IF ENABLE_RENDERING /\ playwright_browser # "none" /\ opened
         THEN /\ open_pages' = open_pages + 1
              /\ frames' = [frames EXCEPT ![r].invoked = TRUE, ![r].pc = "page"]
         ELSE /\ open_pages' = open_pages
              /\ frames' = [frames EXCEPT ![r].invoked = TRUE, ![r].pc = "done",
                                          ![r].status = 500]
    /\ UNCHANGED <<ENABLE_RENDERING, ENABLE_RENDER_NOW, playwright_browser, started>>
    /\ UNCHANGED otherThanRenderer

\* page.goto, page.wait_for_timeout, page.screenshot, page.close, in a row with
\* no try/finally: "ok", or the named call raises
Snapshot(r) ==
    /\ frames[r].pc = "page"
    /\ \E outcome \in {"ok", "goto_raises", "wait_raises", "screenshot_raises",
                       "close_raises"} :
         IF outcome = "ok"
         THEN /\ open_pages' = open_pages - 1
              /\ frames' = [frames EXCEPT ![r].pc = "save"]
         ELSE /\ open_pages' = open_pages
              /\ frames' = [frames EXCEPT ![r].pc = "done", ![r].status = 500]
    /\ UNCHANGED <<ENABLE_RENDERING, ENABLE_RENDER_NOW, playwright_browser, started>>
    /\ UNCHANGED otherThanRenderer

\* The save to the store: v1_frame logs a failed write and answers 200;
\* admin_render_now lets it escape (500)
SaveRender(r) ==
    /\ frames[r].pc = "save"
    /\ \E written \in BOOLEAN :
         frames' = [frames EXCEPT
                      ![r].pc = "done",
                      ![r].status = IF frames[r].route = "render_now"
                                       /\ storage_enabled /\ ~written
                                    THEN 500 ELSE 200]
    /\ UNCHANGED <<ENABLE_RENDERING, ENABLE_RENDER_NOW, playwright_browser, started, open_pages>>
    /\ UNCHANGED otherThanRenderer

InitRenderer ==
    /\ RenderIdle
    /\ ProvidersIdle
    /\ QuantIdle
    /\ HelpersIdle
    /\ RotationIdle
    /\ JobIdle
    /\ RolloverIdle
    /\ ENABLE_RENDERING \in BOOLEAN
    /\ ENABLE_RENDER_NOW \in BOOLEAN
    /\ playwright_browser = "none"
    /\ started = "no"
    /\ open_pages = 0
    /\ frames = [r \in FrameRequests |-> IdleFrame]

NextRenderer ==
    \/ startup_event
    \/ \E r \in FrameRequests : BeginFrame(r)
    \/ \E r \in FrameRequests : BuildRenderData(r)
    \/ \E r \in FrameRequests : OpenPage(r)
    \/ \E r \in FrameRequests : Snapshot(r)
    \/ \E r \in FrameRequests : SaveRender(r)

SpecRenderer == InitRenderer /\ [][NextRenderer]_vars

-----------------------------------------------------------------------------
(* get_forecast (backend/main.py) called on its own *)

\* Dates are day numbers; the call is made on day 1, so an item can be dated
\* the day before (the provider dates in UTC), today or later.
FcToday == 1
FcDates == 0..MaxDate
\* Temperatures in half degrees: 10.5, 11.5 and 12.0
HalfDegrees == {21, 23, 24}
\* round(): halves go to the even neighbour
PyRound(h) ==
    IF h % 2 = 0 THEN h \div 2
    ELSE IF (h \div 2) % 2 = 0 THEN h \div 2 ELSE (h \div 2) + 1

\* One element of j["list"]: dt is <<>> when dt_txt is missing, temp is <<>>
\* when main.temp is missing, weather tells whether item["weather"] is non-empty
ForecastItems ==
    {[dt |-> <<>>, temp |-> <<>>, weather |-> TRUE]}
    \cup [dt : {<<d>> : d \in FcDates}, temp : {<<h>> : h \in HalfDegrees} \cup {<<>>},
          weather : {TRUE}]
    \cup [dt : {<<d>> : d \in FcDates}, temp : {<<>>}, weather : {FALSE}]

RawLists == UNION {[1..n -> ForecastItems] : n \in 0..MaxItems}
DaysArgs == {0, 1, 2}
FcOutcomes == {"ok", "non200", "raises"}

\* An item dated today is kept like any other.
KeepItemAlsoToday(item, today_str) ==
    /\ item.dt # <<>>
    /\ item.weather

\* The three continue statements of the item loop
KeepItem(item, today_str) ==
    /\ item.dt # <<>>
    /\ item.dt[1] # today_str
    /\ item.weather

\* per_day[date_only]: the temperatures that are not None
DayTemps(raw_list, today_str, day) ==
    {raw_list[i].temp[1] : i \in {k \in DOMAIN raw_list :
                                    /\ KeepItem(raw_list[k], today_str)
                                    /\ raw_list[k].dt[1] = day
                                    /\ raw_list[k].temp # <<>>}}

SetMin(S) == CHOOSE x \in S : \A y \in S : x <= y
SetMax(S) == CHOOSE x \in S : \A y \in S : x >= y

\* out before sorting: one entry per day of per_day that has a temperature
DayEntries(raw_list, today_str) ==
    {[date |-> d,
      tmin |-> PyRound(SetMin(DayTemps(raw_list, today_str, d))),
      tmax |-> PyRound(SetMax(DayTemps(raw_list, today_str, d)))] :
        d \in {x \in FcDates : DayTemps(raw_list, today_str, x) # {}}}

\* sorted(out, key=lambda x: x["date"])
RECURSIVE SortedByDate(_)
SortedByDate(entries) ==
    IF entries = {} THEN <<>>
    ELSE LET first == CHOOSE e \in entries : \A o \in entries : e.date <= o.date
         IN <<first>> \o SortedByDate(entries \ {first})

\* out[:days]
FirstN(seq, n) == SubSeq(seq, 1, IF n < Len(seq) THEN n ELSE Len(seq))

\* get_forecast(city, days): [] when disabled, without a key, on a non-200
\* answer, on an empty list and on any exception
get_forecast(enabled, keyed, outcome, raw_list, today_str, days) ==
    IF ~enabled \/ ~keyed THEN <<>>
    ELSE IF outcome # "ok" THEN <<>>
    ELSE FirstN(SortedByDate(DayEntries(raw_list, today_str)), days)

RunGetForecast ==
    /\ ~fcCall.called
    /\ fcCall.outcome # "none"
    /\ fcCall' = [fcCall EXCEPT
                    !.called = TRUE,
                    !.out = get_forecast(fcCall.enabled, fcCall.keyed, fcCall.outcome,
                                         fcCall.raw_list, fcCall.today, fcCall.days)]
    /\ UNCHANGED <<scan, layoutCall, wxCall>>
    /\ UNCHANGED otherThanHelpers

InitForecast ==
    /\ RenderIdle
    /\ ProvidersIdle
    /\ QuantIdle
    /\ RotationIdle
    /\ JobIdle
    /\ RolloverIdle
    /\ RendererIdle
    /\ scan = NoScan
    /\ layoutCall = NoLayoutCall
    /\ wxCall = NoWxCall
    /\ \E enabled \in BOOLEAN, keyed \in BOOLEAN, outcome \in FcOutcomes,
          raw_list \in RawLists, days \in DaysArgs :
         /\ (~enabled \/ ~keyed \/ outcome # "ok") => (raw_list = <<>> /\ days = 2)
         /\ fcCall = [NoFcCall EXCEPT
                        !.enabled = enabled, !.keyed = keyed, !.outcome = outcome,
                        !.raw_list = raw_list, !.today = FcToday, !.days = days]

NextForecast == RunGetForecast

SpecForecast == InitForecast /\ [][NextForecast]_vars

-----------------------------------------------------------------------------
(* The weekly art job: generate_weekly_art (backend/generator.py) and        *)
(* generate_and_save_weekly_art (generator.py)                               *)

\* Dates are day numbers, day 0 being a Monday; strftime('%Y-%m-%d') names
\* each date by a text of its own.
Weekday(date) == date % 7
\* The job is run on a Sunday, on a Monday or on a Wednesday
RunDates == {6, 7, 9}
Generators == {"backend/generator.py", "generator.py"}

\* range(7) x THEME_PROMPTS; the days exercised are DayIndices
JobPairs == [day : DayIndices, theme : VariationIndices]
PairRank(pair) == pair.day * NumVariations + pair.theme
NumPairs == Cardinality(JobPairs)
PairAt(n) == CHOOSE pair \in JobPairs : PairRank(pair) = n

\* start_of_week (backend/generator.py) and start_date (generator.py)
JobWeekStart(gen, run_date) ==
    IF gen = "backend/generator.py"
    THEN run_date + ((7 - Weekday(run_date) + 0) % 7)
    ELSE run_date - Weekday(run_date) + 7

\* file_name of the pair: weekly-art/{date}_{day_index}_{theme_index}.png
JobFileName(gen, start, pair) ==
    IF gen = "backend/generator.py"
    THEN [date |-> start + pair.day, day |-> pair.day, var |-> pair.theme]
    ELSE [date |-> start, day |-> pair.day, var |-> pair.theme]

\* fresh_file_name of fetch_ai_image(current_date, variation_index)
FreshFileNameOn(current_date, variation) ==
    [date |-> current_date - Weekday(current_date),
     day |-> Weekday(current_date), var |-> variation]

\* The configuration check at the head of the job: backend/generator.py returns
\* without a token or a bucket name; generator.py exits without a token and
\* defaults the bucket name.
JobConfigured(gen, token, bucket_name) ==
    IF gen = "backend/generator.py" THEN token /\ bucket_name ELSE token

StartJob ==
    /\ job.pc = "start"
    /\ job' = [job EXCEPT
                 !.pc = IF JobConfigured(job.gen, job.token, job.bucket_name)
                        THEN "loop" ELSE "done",
                 !.start = JobWeekStart(job.gen, job.run_date)]
    /\ UNCHANGED otherThanJob

\* One turn of the inner loop: "ok", the generation raises, or the upload
\* raises; the except clause goes on with the next pair.
AttemptPair ==
    /\ job.pc = "loop"
    /\ \E outcome \in {"ok", "generation_fails", "upload_fails"} :
         LET pair == PairAt(Len(job.attempts))
         IN job' = [job EXCEPT
                      !.attempts = Append(@, pair),
                      !.generated = IF outcome # "generation_fails"
                                    THEN @ \cup {pair} ELSE @,
                      !.uploaded = IF outcome = "ok"
                                   THEN @ \cup {JobFileName(job.gen, job.start, pair)}
                                   ELSE @,
                      !.pc = IF Len(job.attempts) + 1 = NumPairs THEN "done" ELSE "loop"]
    /\ UNCHANGED otherThanJob

InitJob ==
    /\ RenderIdle
    /\ ProvidersIdle
    /\ QuantIdle
    /\ HelpersIdle
    /\ RotationIdle
    /\ RendererIdle
    /\ RolloverIdle
    /\ \E gen \in Generators, token \in BOOLEAN, bucket_name \in BOOLEAN,
          run_date \in RunDates :
         job = [gen |-> gen, token |-> token, bucket_name |-> bucket_name,
                run_date |-> run_date, start |-> 0, pc |-> "start",
                attempts |-> <<>>, generated |-> {}, uploaded |-> {}]

NextJob ==
    \/ StartJob
    \/ AttemptPair

SpecJob == InitJob /\ [][NextJob]_vars

-----------------------------------------------------------------------------
(* The rollover block of /admin/prefetch, one blob at a time *)

\* Blob names are the sequences of their "/"-separated parts. Under
\* pexels/current/ lie the flat names admin_prefetch writes and the nested
\* ones of prefetch_weekly_set; CurrentOrder is their list_blobs order.
CurrentOrder == << <<"pexels", "current", "abstract", "v_0.jpg">>,
                   <<"pexels", "current", "abstract_0.jpg">>,
                   <<"pexels", "current", "geometric", "v_0.jpg">> >>
CurrentNames == {CurrentOrder[i] : i \in DOMAIN CurrentOrder}

\* name.split("/", 2): at most two splits, the third part keeps its slashes
SplitTwice(name) == <<name[1], name[2], SubSeq(name, 3, Len(name))>>

\* The destination is built from the base name alone.
DestOfBasename(name) == <<"pexels", "cache", "<today>">> \o <<name[Len(name)]>>

\* dest = prefix_cache + b.name.split("/", 2)[-1]
Dest(name) == <<"pexels", "cache", "<today>">> \o SplitTwice(name)[3]

CacheNames == {Dest(n) : n \in CurrentNames}
\* The content of an object: the current/ blob it was copied from, or <<"old">>
\* for what an earlier rotation of the day left in the cache partition
OldContent == <<"old">>

NoRollover == [pc |-> "idle", current |-> {}, cached |-> {}, blobs |-> <<>>,
               i |-> 0, rolled_over |-> FALSE, status |-> 0]

\* blobs = list(gcs_client.list_blobs(GCS_BUCKET, prefix=prefix_current))
ListCurrent ==
    /\ roll.pc = "idle"
    /\ \E listed \in BOOLEAN :
         LET blobs == SelectSeq(CurrentOrder, LAMBDA n : n \in roll.current)
         IN roll' = [roll EXCEPT
                       !.blobs = IF listed THEN blobs ELSE <<>>,
                       !.i = 1,
                       !.rolled_over = listed /\ blobs # <<>>,
                       !.pc = IF ~listed THEN "done"
                              ELSE IF blobs = <<>> THEN "done" ELSE "copy",
                       !.status = IF listed THEN 0 ELSE 500]
    /\ UNCHANGED otherThanRollover

\* gcs_bucket.copy_blob(b, gcs_bucket, dest): writes or overwrites dest
CopyBlob ==
    /\ roll.pc = "copy"
    /\ \E copied \in BOOLEAN :
         LET b == roll.blobs[roll.i]
         IN IF copied
            THEN roll' = [roll EXCEPT
                            !.cached = {o \in @ : o.name # Dest(b)}
                                       \cup {[name |-> Dest(b), content |-> b]},
                            !.pc = "delete"]
            ELSE roll' = [roll EXCEPT !.pc = "done", !.status = 500]
    /\ UNCHANGED otherThanRollover

\* b.delete(), then the next blob
DeleteBlob ==
    /\ roll.pc = "delete"
    /\ \E deleted \in BOOLEAN :
         IF deleted
         THEN roll' = [roll EXCEPT
                         !.current = @ \ {roll.blobs[roll.i]},
                         !.i = @ + 1,
                         !.pc = IF roll.i = Len(roll.blobs) THEN "done" ELSE "copy"]
         ELSE roll' = [roll EXCEPT !.pc = "done", !.status = 500]
    /\ UNCHANGED otherThanRollover

InitRollover ==
    /\ RenderIdle
    /\ ProvidersIdle
    /\ QuantIdle
    /\ HelpersIdle
    /\ RotationIdle
    /\ JobIdle
    /\ RendererIdle
    /\ \E current \in SUBSET CurrentNames, old \in SUBSET CacheNames :
         roll = [NoRollover EXCEPT
                   !.current = current,
                   !.cached = {[name |-> n, content |-> OldContent] : n \in old}]

NextRollover ==
    \/ ListCurrent
    \/ CopyBlob
    \/ DeleteBlob

SpecRollover == InitRollover /\ [][NextRollover]_vars

-----------------------------------------------------------------------------
(* Properties of the Background Resolver and of the request *)

\* Would this tier's lookup succeed in the environment of the request?
Available(tier) ==
    CASE tier = "fresh" ->
            FreshLookup(bucket, gcsUp, today, variation_index) = "hit"
      [] tier = "local_fallback" -> LoadLocalFallback(localFile) = "hit"
      [] tier = "stale_remote" ->
            FetchStaleGcsData(bucket, gcsUp, today, variation_index) = "hit"
      [] tier = "placeholder" -> TRUE

FirstAvailable ==
    Tiers[CHOOSE i \in DOMAIN Tiers :
            Available(Tiers[i]) /\ \A j \in 1..(i - 1) : ~Available(Tiers[j])]

\* fetch_ai_image has ended, by returning or by raising
ResolverEnded == pc \in {"weather", "joke", "layout", "respond", "done"}

\* C1: whatever way the fresh lookup, the local fallback lookup and the stale
\* scan fail, fetch_ai_image ends by returning an image: no exception leaves it.
C1_ResolverAlwaysReturnsImage ==
    ResolverEnded => art.tier # "none"

C3_TiersOnceInOrder ==
    /\ Len(attempts) <= Len(Tiers)
    /\ \A i \in DOMAIN attempts : attempts[i] = Tiers[i]
    /\ \A i \in DOMAIN attempts : i < Len(attempts) => ~Available(attempts[i])
    /\ art.tier # "none" =>
         (attempts # <<>> /\ attempts[Len(attempts)] = art.tier)

\* All four tiers were attempted, one after the other, down to the placeholder.
C3_Witness ==
    /\ attempts = Tiers
    /\ art.tier = "placeholder"
    /\ pc = "done"

\* Nothing upstream works: no blob, no fallback file, no weather, no joke.
AllUpstreamFail ==
    /\ ~Available("fresh")
    /\ LoadLocalFallback(localFile) = "ioerror"
    /\ ~Available("stale_remote")
    /\ weather.failed
    /\ joke.failed

\* C4: with every upstream provider failing the request is still answered with
\* a PNG of the canvas size, drawn on the placeholder, with the "Sunny" weather
\* stub and a joke of the local list; never with an error response.
C4_DegradedFrameWhenAllFail ==
    (pc = "done" /\ AllUpstreamFail) =>
        /\ response.status = 200
        /\ response.mimetype = "image/png"
        /\ response.size = <<DISPLAY_WIDTH, DISPLAY_HEIGHT>>
        /\ art.tier = "placeholder"
        /\ weather.text = "Sunny"
        /\ joke.text \in LocalJokeSet

SomeElementRaises ==
    \E i \in DOMAIN LayoutElements(variation_index) :
        ElementRaises(variation_index, LayoutElements(variation_index)[i], art.size)

ElementsThatDraw ==
    SelectSeq(LayoutElements(variation_index),
              LAMBDA e : ~ElementRaises(variation_index, e, art.size))

\* C7: when drawing one layout element fails, that element is skipped, the
\* other elements are drawn in order, and the request still returns a frame.
C7_FailedElementIsSkipped ==
    (pc = "done" /\ art.tier # "none" /\ SomeElementRaises) =>
        /\ drawn = ElementsThatDraw
        /\ response.status = 200

StepRank(s) ==
    CASE s = "resolve" -> 1
      [] s = "normalize" -> 2
      [] s = "layout" -> 3
      [] s = "quantize" -> 4
      [] s = "encode" -> 5

\* C8: a render call resolves the background, then normalizes it, then renders
\* the layout, and only then quantizes; never quantizes before the layout.
C8_QuantizeOnlyAfterLayout ==
    \A i, j \in DOMAIN steps : i < j => StepRank(steps[i]) < StepRank(steps[j])

\* C11: the image fetch_ai_image returns has been quantized to the six-colour
\* palette, whichever of the four sources produced it.
C11_ResolvedImageAlwaysQuantized ==
    (ResolverEnded /\ art.tier # "none") => art.quantized

\* C17: when the object store is unavailable the request ends in a failure the
\* caller sees; it is not answered from the fallback or placeholder path.
C17_StoreOutageSurfaced ==
    (pc = "done" /\ ~gcsUp) => response.status # 200

\* The size the layout gives the art before it is pasted
NormalizedSize ==
    <<ArtResize(variation_index)[1].v, ArtResize(variation_index)[2].v>>

\* C20: whatever the size of the source image, the image handed to the layout
\* and the frame returned both have the canvas size, 800 x 480.
C20_CanvasSizeAlways ==
    (pc = "done" /\ art.tier # "none") =>
        /\ NormalizedSize = <<DISPLAY_WIDTH, DISPLAY_HEIGHT>>
        /\ response.size = <<DISPLAY_WIDTH, DISPLAY_HEIGHT>>

\* C26: every colour the drawing function of the request's layout paints with
\* is one of the six colours of the quantizer palette.
C26_DrawingColoursInQuantizerPalette ==
    drawn # <<>> =>
        LayoutColours(variation_index) \subseteq
            {EINK_COLOR_TUPLES[i] : i \in DOMAIN EINK_COLOR_TUPLES}

-----------------------------------------------------------------------------
(* Properties of the weather and joke wrappers *)

WeatherCall == call.fn \in {"main.get_weather", "services.get_weather"}

\* The provider was asked and did not answer with a well-formed 200.
ProviderFailed == call.result.outbound > 0 /\ call.outcome # "ok"

\* C5: get_weather never raises; on a provider failure or a missing API key it
\* returns the stub whose description is "Sunny"; with the key missing it makes
\* no outbound call.
C5_GetWeatherNeverRaises ==
    WeatherCall =>
        /\ call.result.kind = "returned"
        /\ (ProviderFailed \/ ~call.keyed) => call.result.desc = "Sunny"
        /\ ~call.keyed => call.result.outbound = 0

JokeCall == call.fn \in {"main.get_joke", "app._fetch_joke"}

JokeProviderOff == call.fn = "main.get_joke" /\ ~call.enabled

\* C6: when the joke provider fails or is disabled, the joke returned is one
\* of LOCAL_JOKES and no exception is raised.
C6_JokeFallsBackToLocalList ==
    (JokeCall /\ (call.outcome # "ok" \/ JokeProviderOff)) =>
        /\ call.result.kind = "returned"
        /\ call.result.joke \in LocalJokeSet

\* timeout= of the outbound request each wrapper makes, in seconds
TimeoutOf(fn) ==
    CASE fn = "main.get_weather" -> 8
      [] fn = "services.get_weather" -> 15
      [] fn = "main.get_joke" -> 6
      [] fn = "app._fetch_weather" -> 5
      [] fn = "app._fetch_joke" -> 5
      [] fn = "main.get_forecast" -> 10
      [] fn = "main.pexels_fetch_images" -> 10
      [] fn = "pexels.prefetch_weekly_set" -> 40
      [] fn = "generator.query_hugging_face" -> 0   \* requests.post without timeout

\* C19: every outbound call to a provider is made with an explicit timeout of
\* at most 9 seconds.
C19_TimeoutsSingleDigit ==
    (call.fn # "none" /\ call.result.outbound > 0) => TimeoutOf(call.fn) \in 1..9

-----------------------------------------------------------------------------
(* Properties of the quantizer *)

PaletteSet == {EINK_COLOR_TUPLES[i] : i \in DOMAIN EINK_COLOR_TUPLES}

Pixels(img) == {img[y][x] : y \in DOMAIN img, x \in 1..Len(img[1])}

-----------------------------------------------------------------------------
(* Properties of the stale scan *)

\* The objects of the scanned bucket the scan is allowed to return
StaleCandidates ==
    {o \in scan.objects :
        o.prefix = "weekly-art/" /\ o.key.day = scan.day /\ o.key.var = scan.var}

\* C12: the stale scan returns only a blob under weekly-art/ whose name ends
\* with the suffix of the requested day and variation, of any date; it returns
\* the first such blob of the listing; and it fails, which sends the resolver
\* to the placeholder, when no listed blob has that suffix.
C12_StaleScanFirstMatch ==
    scan.called =>
        /\ scan.outcome = "hit" =>
             /\ scan.blob \in StaleCandidates
             /\ \A o \in StaleCandidates \ {scan.blob} : KeyBefore(scan.blob.key, o.key)
        /\ (scan.up /\ StaleCandidates # {}) => scan.outcome = "hit"
        /\ StaleCandidates = {} =>
             /\ scan.outcome = "error"
             /\ scan.blob = NoBlob
             /\ Escalate("stale_remote", scan.outcome) = "placeholder"

\* Two blobs of different dates carry the suffix and a blob outside weekly-art/
\* would be possible too: the scan returned the older of the two.
C12_Witness ==
    /\ scan.called
    /\ scan.outcome = "hit"
    /\ Cardinality(StaleCandidates) > 1
    /\ scan.blob.key.date # start_of_week

-----------------------------------------------------------------------------
(* Properties of load_layout_for *)

PersistedReadable ==
    /\ layoutCall.enabled
    /\ layoutCall.up
    /\ layoutCall.persisted[LayoutKey(layoutCall.emailUsers, layoutCall.username,
                                      layoutCall.device)] = "document"

\* C18: load_layout_for never raises and always yields a layout document: the
\* persisted one when the store holds it, otherwise the default document.
C18_LayoutAlwaysLoaded ==
    layoutCall.called =>
        /\ layoutCall.kind = "returned"
        /\ layoutCall.layout.doc # "none"
        /\ PersistedReadable => layoutCall.layout.doc = "persisted"
        /\ ~PersistedReadable => layoutCall.layout.doc = "preset"

-----------------------------------------------------------------------------
(* Properties of the rotation *)

InProgress(r) == rot[r].pc \in {"fetch", "download"}
RolledOver(r) ==
    rot[r].pc = "idle" /\ rot'[r].pc = "fetch" /\ rot'[r].rolled_over

\* C13: a rotation first clears the cache partition, then moves every current
\* object into it, and only then writes new images: right after a request's
\* rollover the cache partition holds exactly the objects it listed and
\* current/ is empty, and an object appears under current/ only while a request
\* is in its download loop.
C13_CacheClearedThenMovedThenWritten ==
    [][/\ \A r \in Requests :
            RolledOver(r) =>
                /\ pexCache' = rot'[r].blobs
                /\ pexCurrent' = EmptyPartition
       /\ \A i \in Slots :
            pexCurrent'[i] \notin {0, pexCurrent[i]} =>
                \E r \in Requests : rot[r].pc = "download" /\ rot[r].rolled_over]_vars

\* C14: when the provider call fails during a rotation that moved images, the
\* moved images are in the cache partition and the resolver's stale scan
\* reaches one of them for some day and variant.
C14_ProviderFailureLeavesReachableImages ==
    \A r \in Requests :
        (rot[r].pc = "done" /\ rot[r].providerFailed /\ rot[r].rolled_over) =>
            /\ \A i \in Listed(rot[r].blobs) : pexCache[i] # 0
            /\ \E day \in DayIndices, var \in VariationIndices :
                 StaleBlob(BucketObjects, TRUE, day, var).prefix = PEXELS_CACHE

\* C15: no photo id is stored twice under current/, in the layout of
\* /admin/prefetch and in the layout of prefetch_weekly_set.
C15_NoSecondCopyOfPhotoId ==
    DistinctIds(pexCurrent) /\ DistinctIds(weekly)

\* C16: at most one rotation is in progress at any time.
C16_RotationsSerialized ==
    Cardinality({r \in Requests : InProgress(r)}) <= 1

-----------------------------------------------------------------------------
(* Properties of the weather classification *)

IconKinds == {"storm", "rain", "snow", "fog", "cloudy", "partly", "sunny"}
Classified == wxCall.called /\ wxCall.keyed /\ wxCall.outcome = "ok"

\* C21: every description is classified as exactly one icon kind; "light rain"
\* is classified as rain, "few clouds" as partly, and a text with no mapping
\* as cloudy.
C21_ClassificationTotal ==
    Classified =>
        /\ wxCall.result.icon \in IconKinds \cup {"sun", "cloud", "drizzle", "thunderstorm"}
        /\ wxCall.condition = "light rain" => wxCall.result.icon = "rain"
        /\ wxCall.condition = "few clouds" => wxCall.result.icon \in {"partly", "cloud"}
        /\ weather_symbols(wxCall.condition) = "unknown" =>
               wxCall.result.icon \in {"cloudy", "cloud"}

-----------------------------------------------------------------------------
(* Properties of the cached weather service *)

SvcCallStep == call'.fn = "services.get_weather" /\ now' = now

\* C23: a call of the cached service with an entry for its city and units
\* younger than 3600 seconds returns that entry's payload, calls no provider
\* and writes nothing; with no entry or an older one it calls the provider,
\* never returns the old payload, and on success rewrites the entry with the
\* current time and the new payload.
C23_CacheServedForSixtyMinutes ==
    [][SvcCallStep =>
        LET k == CacheKey(call'.city, call'.units)
            young == cache[k].ts >= 0 /\ now - cache[k].ts < 60 * 60
        IN IF young
           THEN /\ call'.result = Returned(cache[k].desc, "", 0)
                /\ cache' = cache
           ELSE /\ call'.result.outbound = 1
                /\ call'.outcome = "ok" =>
                     /\ call'.result.kind = "returned"
                     /\ cache' = [cache EXCEPT
                                    ![k] = [ts |-> now, desc |-> call'.result.desc]]
                /\ call'.outcome # "ok" =>
                     /\ call'.result.kind = "raised"
                     /\ cache' = cache]_vars

\* An entry written half a TTL ago was served without a provider call.
C23_Witness ==
    /\ call.fn = "services.get_weather"
    /\ call.result.kind = "returned"
    /\ call.result.outbound = 0
    /\ now - cache[CacheKey(call.city, call.units)].ts = 1800

-----------------------------------------------------------------------------
(* Properties of the renderer *)

Answered(r) == frames[r].pc = "done"
BrowserWhenEnabled ==
    (started # "no" /\ ENABLE_RENDERING) => playwright_browser # "none"

\* C22: after a failed start-up rendering stays disabled: every /v1/frame
\* request and every /admin/render_now request with a valid token is answered
\* 503 without invoking the renderer; and when rendering is enabled after
\* start-up there is a browser.
C22_FailedStartupAnswers503 ==
    /\ started = "failed" =>
         /\ ~ENABLE_RENDERING
         /\ \A r \in FrameRequests :
              (Answered(r) /\ frames[r].tokenOk) =>
                  frames[r].status = 503 /\ ~frames[r].invoked
    /\ BrowserWhenEnabled

\* C22 as amended: the same, except that /admin/render_now with a valid token
\* is answered 403 when ENABLE_RENDER_NOW is off.
C22_FailedStartupAnswers503Or403 ==
    /\ started = "failed" =>
         /\ ~ENABLE_RENDERING
         /\ \A r \in FrameRequests :
              (Answered(r) /\ frames[r].tokenOk) =>
                  /\ ~frames[r].invoked
                  /\ frames[r].status =
                        IF frames[r].route = "render_now" /\ ~ENABLE_RENDER_NOW
                        THEN 403 ELSE 503
    /\ BrowserWhenEnabled

\* After a failed start-up both routes have answered 503.
C22_Witness ==
    /\ started = "failed"
    /\ \E r, q \in FrameRequests :
         /\ Answered(r) /\ frames[r].route = "frame" /\ frames[r].status = 503
         /\ Answered(q) /\ frames[q].route = "render_now" /\ frames[q].status = 503

\* C30: when no render is between new_page and page.close, no page is open.
C30_NoPageLeftOpen ==
    (\A r \in FrameRequests : frames[r].pc # "page") => open_pages = 0

-----------------------------------------------------------------------------
(* Properties of get_forecast *)

\* The days of the answer that carry a usable item: dated, not today, with a
\* weather element and a temperature
AvailableDays ==
    {fcCall.raw_list[i].dt[1] : i \in {k \in DOMAIN fcCall.raw_list :
        /\ fcCall.raw_list[k].dt # <<>>
        /\ fcCall.raw_list[k].dt # <<fcCall.today>>
        /\ fcCall.raw_list[k].weather
        /\ fcCall.raw_list[k].temp # <<>>}}
ForecastDates == {fcCall.out[i].date : i \in DOMAIN fcCall.out}

\* C24: get_forecast never raises; it returns at most `days` entries, none
\* dated today, with distinct ascending dates that are the earliest available
\* days, each with tmin <= tmax; and the empty list when the provider is
\* disabled or fails.
C24_ForecastSkipsTodayEarliestDays ==
    fcCall.called =>
        /\ ~fcCall.raised
        /\ Len(fcCall.out) <= fcCall.days
        /\ \A i \in DOMAIN fcCall.out :
             /\ fcCall.out[i].date # fcCall.today
             /\ fcCall.out[i].tmin <= fcCall.out[i].tmax
             /\ \A j \in DOMAIN fcCall.out : i < j => fcCall.out[i].date < fcCall.out[j].date
        /\ ForecastDates \subseteq AvailableDays
        /\ \A d \in AvailableDays \ ForecastDates :
             /\ Len(fcCall.out) = fcCall.days
             /\ \A e \in ForecastDates : e < d
        /\ (~fcCall.enabled \/ ~fcCall.keyed \/ fcCall.outcome # "ok") => fcCall.out = <<>>

\* An answer with an item of today and more later days than asked for, the
\* later ones out of order, was cut to the earliest day.
C24_Witness ==
    /\ fcCall.called
    /\ fcCall.days = 1
    /\ Len(fcCall.out) = 1
    /\ Cardinality(AvailableDays) = 2
    /\ \E i \in DOMAIN fcCall.raw_list : fcCall.raw_list[i].dt = <<fcCall.today>>
    /\ fcCall.raw_list[1].dt = <<2>>
    /\ fcCall.out[1].date = 0

-----------------------------------------------------------------------------
(* Properties of the weekly art job *)

AllPairsInOrder == [n \in 1..NumPairs |-> PairAt(n - 1)]
JobConfigComplete == job.token /\ job.bucket_name
UploadedPairs == {[day |-> k.day, theme |-> k.var] : k \in job.uploaded}

\* C25: a configured job attempts every (day, theme) pair once, in order,
\* whatever fails; only pairs whose generation succeeded are uploaded; and
\* without the token or the bucket name nothing is generated or uploaded.
C25_AllPairsAttempted ==
    /\ \A n \in DOMAIN job.attempts : job.attempts[n] = AllPairsInOrder[n]
    /\ (job.pc = "done" /\ JobConfigComplete) => job.attempts = AllPairsInOrder
    /\ UploadedPairs \subseteq job.generated
    /\ ~JobConfigComplete =>
         (job.attempts = <<>> /\ job.generated = {} /\ job.uploaded = {})

\* C27: every object the job uploads for (day d, theme t) carries the name
\* fetch_ai_image looks up when it renders on day d of the generated week with
\* variation t.
C27_UploadedKeyIsFreshKey ==
    \A k \in job.uploaded :
        k = FreshFileNameOn(job.start + k.day, k.var)

\* C29: after prefetch_weekly_set has run on an empty current/ partition,
\* every key pick_random_key can return from the current folder names a
\* stored object.
C29_PickedCurrentKeyExists ==
    [][(weekly = EmptyPartition /\ weekly' # weekly) =>
          \A idx \in PickIndices(MaxUrls) :
              weekly'[pick_random_key(FALSE, idx).idx] # 0]_vars

-----------------------------------------------------------------------------
(* Properties of the rollover *)

ListedBlobs == {roll.blobs[k] : k \in DOMAIN roll.blobs}
InCache(b) == \E o \in roll.cached : o.content = b

\* C28: at every point of the rollover, also after a copy or a delete has
\* failed, each image listed under pexels/current/ at its start is under
\* pexels/current/ or under pexels/cache/<today>/; one that has left current/
\* is in the cache; and distinct blobs have distinct destinations.
C28_RolloverLosesNoImage ==
    /\ \A b \in ListedBlobs :
         /\ b \in roll.current \/ InCache(b)
         /\ b \notin roll.current => InCache(b)
    /\ \A a, b \in ListedBlobs : a # b => Dest(a) # Dest(b)

\* A rollover of three images failed part-way: one is moved, the next is
\* copied and not deleted, the last is untouched.
C28_Witness ==
    /\ roll.pc = "done"
    /\ roll.status = 500
    /\ Cardinality(ListedBlobs) = 3
    /\ \E a, b, c \in ListedBlobs :
         /\ a \notin roll.current /\ InCache(a)
         /\ b \in roll.current /\ InCache(b)
         /\ c \in roll.current /\ ~InCache(c)

====
